---- MODULE Spec2Model ----
(***************************************************************************)
(* Model of validate_project.py: a sequential runner of five checkers over *)
(* the project's working directory.  The filesystem is the input of a run; *)
(* it is read, never written.  A run is main(): banner, the five checkers  *)
(* in list order, summary banner and exit status.                          *)
(*                                                                         *)
(* Python str values that are searched (file texts, package names, ignore  *)
(* patterns, JSON strings) are sequences of one-character strings; paths   *)
(* and names that are only compared or printed are TLA+ strings.           *)
(***************************************************************************)
EXTENDS Integers, Sequences, FiniteSets, TLC

VARIABLES fs, pc, idx, all_checks_passed, returned, out, probes, exit_status

vars == <<fs, pc, idx, all_checks_passed, returned, out, probes, exit_status>>

(***************************************************************************)
(* Bounds of the explored inputs.                                          *)
(***************************************************************************)
\* most deviations of one layout from the complete project layout
MaxFaults == 2
\* longest "cells" list of a notebook
MaxCells == 1

(***************************************************************************)
(* The fixed tables of the checkers.                                       *)
(***************************************************************************)
required_dirs ==
    <<"data", "data/raw", "data/stage", "data/processed", "notebooks", "models">>

required_files ==
    <<"README.md", "requirements.txt", ".gitignore",
      "notebooks/01_data_ingestion.ipynb",
      "notebooks/02_data_cleaning.ipynb",
      "notebooks/03_feature_engineering.ipynb",
      "notebooks/04_model_training.ipynb">>

notebooks ==
    <<"notebooks/01_data_ingestion.ipynb",
      "notebooks/02_data_cleaning.ipynb",
      "notebooks/03_feature_engineering.ipynb",
      "notebooks/04_model_training.ipynb">>

\* the dict of validate_data_pipeline, in insertion order
expected_data_flow ==
    << [layer |-> "raw",
        files |-> <<"customers.csv", "products.csv", "transactions.csv">>],
       [layer |-> "stage",
        files |-> <<"cleaned_customers.csv", "cleaned_products.csv",
                    "cleaned_transactions.csv", "data_quality_summary.json">>],
       [layer |-> "processed",
        files |-> <<"customer_features.csv", "training_data.csv", "X_features.csv",
                    "y_target.csv", "label_encoders.pkl",
                    "feature_engineering_summary.json">>] >>

model_artifacts ==
    <<"retention_model.h5", "scaler.pkl", "feature_importance.csv",
      "model_metadata.json", "training_history.csv">>

\* f"data/{layer}/README.md"
readme_file(layer) == "data/" \o layer \o "/README.md"

models_readme == "models/README.md"

essential_packages ==
    <<"pandas", "numpy", "tensorflow", "scikit-learn",
      "matplotlib", "seaborn", "faker", "jupyter">>

essential_patterns ==
    <<"__pycache__", "*.pyc", ".ipynb_checkpoints",
      "data/raw/*.csv", "models/", ".env">>

\* the checks list of main, by function name
checks ==
    <<"validate_project_structure", "validate_notebooks", "validate_data_pipeline",
      "validate_requirements", "validate_gitignore">>

(***************************************************************************)
(* Python str as a character sequence.                                     *)
(***************************************************************************)
Chars ==
       "pandas" :> <<"p", "a", "n", "d", "a", "s">>
    @@ "numpy" :> <<"n", "u", "m", "p", "y">>
    @@ "tensorflow" :> <<"t", "e", "n", "s", "o", "r", "f", "l", "o", "w">>
    @@ "scikit-learn" :> <<"s", "c", "i", "k", "i", "t", "-", "l", "e", "a", "r", "n">>
    @@ "matplotlib" :> <<"m", "a", "t", "p", "l", "o", "t", "l", "i", "b">>
    @@ "seaborn" :> <<"s", "e", "a", "b", "o", "r", "n">>
    @@ "faker" :> <<"f", "a", "k", "e", "r">>
    @@ "jupyter" :> <<"j", "u", "p", "y", "t", "e", "r">>
    @@ "__pycache__" :> <<"_", "_", "p", "y", "c", "a", "c", "h", "e", "_", "_">>
    @@ "*.pyc" :> <<"*", ".", "p", "y", "c">>
    @@ ".ipynb_checkpoints" :> <<".", "i", "p", "y", "n", "b", "_", "c", "h", "e", "c",
                                 "k", "p", "o", "i", "n", "t", "s">>
    @@ "data/raw/*.csv" :> <<"d", "a", "t", "a", "/", "r", "a", "w", "/", "*", ".",
                             "c", "s", "v">>
    @@ "models/" :> <<"m", "o", "d", "e", "l", "s", "/">>
    @@ ".env" :> <<".", "e", "n", "v">>
    @@ "cells" :> <<"c", "e", "l", "l", "s">>

LowerLetters ==
    <<"a", "b", "c", "d", "e", "f", "g", "h", "i", "j", "k", "l", "m",
      "n", "o", "p", "q", "r", "s", "t", "u", "v", "w", "x", "y", "z">>

UpperLetters ==
    <<"A", "B", "C", "D", "E", "F", "G", "H", "I", "J", "K", "L", "M",
      "N", "O", "P", "Q", "R", "S", "T", "U", "V", "W", "X", "Y", "Z">>

LowerOf ==
    [c \in {UpperLetters[k] : k \in DOMAIN UpperLetters} |->
        LowerLetters[CHOOSE k \in DOMAIN UpperLetters : UpperLetters[k] = c]]

UpperOf ==
    [c \in {LowerLetters[k] : k \in DOMAIN LowerLetters} |->
        UpperLetters[CHOOSE k \in DOMAIN LowerLetters : LowerLetters[k] = c]]

\* str.lower(), one character
lower_char(c) == IF c \in DOMAIN LowerOf THEN LowerOf[c] ELSE c

\* str.upper(), used to write inputs only
upper_char(c) == IF c \in DOMAIN UpperOf THEN UpperOf[c] ELSE c

str_upper(s) == [k \in DOMAIN s |-> upper_char(s[k])]

\* Python's `sub in s` on two str values
str_contains(sub, s) ==
    \E k \in 0..(Len(s) - Len(sub)) : \A j \in 1..Len(sub) : s[k + j] = sub[j]

(***************************************************************************)
(* JSON values as json.load returns them.                                  *)
(***************************************************************************)
JNull == [type |-> "null"]
JBool(b) == [type |-> "boolean", bool |-> b]
JNum(n) == [type |-> "number", num |-> n]
JStr(cs) == [type |-> "string", chars |-> cs]
JArr(es) == [type |-> "array", elems |-> es]
JObj(m) == [type |-> "object", members |-> m]

\* the outcome of a Python expression: a value, or the exception class it raises
Value(v) == [exc |-> "none", val |-> v]
Raise(e) == [exc |-> e, val |-> JNull]

\* variant: a value that is no container holds no key (the test guarded by a
\* type check)
py_in_guarded(key, content) ==
    CASE content.type = "object" -> Value(key \in DOMAIN content.members)
      [] content.type = "array" ->
            Value(\E k \in DOMAIN content.elems :
                     /\ content.elems[k].type = "string"
                     /\ content.elems[k].chars = Chars[key])
      [] content.type = "string" -> Value(str_contains(Chars[key], content.chars))
      [] OTHER -> Value(FALSE)

\* `key in content` (line 64): dict has keys, list has elements, str has
\* substrings; int, float, bool and None are not iterable
py_in(key, content) ==
    CASE content.type = "object" -> Value(key \in DOMAIN content.members)
      [] content.type = "array" ->
            Value(\E k \in DOMAIN content.elems :
                     /\ content.elems[k].type = "string"
                     /\ content.elems[k].chars = Chars[key])
      [] content.type = "string" -> Value(str_contains(Chars[key], content.chars))
      [] OTHER -> Raise("TypeError")

\* content[key] with a str key (line 68)
py_getitem(content, key) ==
    CASE content.type = "object" ->
            IF key \in DOMAIN content.members
            THEN Value(content.members[key]) ELSE Raise("KeyError")
      [] OTHER -> Raise("TypeError")

\* len(v) (line 68)
py_len(v) ==
    CASE v.type = "array" -> Value(Len(v.elems))
      [] v.type = "string" -> Value(Len(v.chars))
      [] v.type = "object" -> Value(Cardinality(DOMAIN v.members))
      [] OTHER -> Raise("TypeError")

(***************************************************************************)
(* The filesystem as the checkers see it.                                  *)
(*   fs.kind[p]      "missing", "file" (regular file) or "dir"             *)
(*   fs.readable[p]  open(p, 'r') and reading its text succeed             *)
(*   fs.doc[p]       a notebook's text: well-formed JSON or not, and the   *)
(*                   value it parses to                                    *)
(*   fs.text[p]      the text of requirements.txt and of .gitignore        *)
(***************************************************************************)
os_path_isdir(f, p) == f.kind[p] = "dir"

\* variant: any existing path counts (os.path.exists in place of os.path.isfile)
os_path_exists(f, p) == f.kind[p] # "missing"

os_path_isfile(f, p) == f.kind[p] = "file"

\* open(p, 'r') followed by reading: FileNotFoundError, IsADirectoryError,
\* PermissionError are OSError; an undecodable text is UnicodeDecodeError
open_read(f, p) ==
    IF f.kind[p] # "file" THEN Raise("OSError")
    ELSE IF ~f.readable[p] THEN Raise("OSError")
    ELSE Value(TRUE)

\* json.load(f) (line 62)
json_load(f, p) ==
    LET o == open_read(f, p)
    IN  IF o.exc # "none" THEN Raise(o.exc)
        ELSE IF ~f.doc[p].wellformed THEN Raise("JSONDecodeError")
        ELSE Value(f.doc[p].value)

\* the classes an `except Exception` clause catches
ExceptionClasses == {"OSError", "TypeError", "KeyError", "JSONDecodeError"}

(***************************************************************************)
(* Printed lines and filesystem probes.                                    *)
(***************************************************************************)
Line(fn, mark, text, item, n) ==
    [fn |-> fn, mark |-> mark, text |-> text, item |-> item, n |-> n]

Probe(fn, op, path) == [fn |-> fn, op |-> op, path |-> path]

\* what a checker call yields: its return value, or an exception leaving it
Result(ret, lines, prs) == [ret |-> ret, raised |-> "none", out |-> lines, probes |-> prs]

(***************************************************************************)
(* validate_project_structure (lines 13-46)                                *)
(***************************************************************************)
\* the loop over required_dirs (lines 31-36) from item i on: the index of the
\* item at which it returns False, Len(required_dirs) + 1 when it runs to its end
RECURSIVE directories_stop(_, _)
directories_stop(f, i) ==
    IF i > Len(required_dirs) THEN i
    ELSE IF os_path_isdir(f, required_dirs[i]) THEN directories_stop(f, i + 1)
    ELSE i

\* the loop over required_files (lines 39-44) from item i on, likewise
RECURSIVE files_stop(_, _)
files_stop(f, i) ==
    IF i > Len(required_files) THEN i
    ELSE IF os_path_isfile(f, required_files[i]) THEN files_stop(f, i + 1)
    ELSE i

\* the lines and probes of the two loops for their first n items, the last
\* one failing or not
directory_lines(n, fails) ==
    [k \in 1..n |->
        IF fails /\ k = n
        THEN Line("validate_project_structure", "fail", "Missing directory",
                  required_dirs[k], 0)
        ELSE Line("validate_project_structure", "ok", "Directory", required_dirs[k], 0)]

file_lines(n, fails) ==
    [k \in 1..n |->
        IF fails /\ k = n
        THEN Line("validate_project_structure", "fail", "Missing file",
                  required_files[k], 0)
        ELSE Line("validate_project_structure", "ok", "File", required_files[k], 0)]

directory_probes(n) ==
    [k \in 1..n |-> Probe("validate_project_structure", "isdir", required_dirs[k])]

file_probes(n) ==
    [k \in 1..n |-> Probe("validate_project_structure", "isfile", required_files[k])]

\* variant: every item is examined and reported, the result aggregated
validate_project_structure_all(f) ==
    Result(/\ \A k \in DOMAIN required_dirs : os_path_isdir(f, required_dirs[k])
           /\ \A k \in DOMAIN required_files : os_path_isfile(f, required_files[k]),
           [k \in DOMAIN required_dirs |->
               IF os_path_isdir(f, required_dirs[k])
               THEN Line("validate_project_structure", "ok", "Directory",
                         required_dirs[k], 0)
               ELSE Line("validate_project_structure", "fail", "Missing directory",
                         required_dirs[k], 0)]
           \o [k \in DOMAIN required_files |->
               IF os_path_isfile(f, required_files[k])
               THEN Line("validate_project_structure", "ok", "File",
                         required_files[k], 0)
               ELSE Line("validate_project_structure", "fail", "Missing file",
                         required_files[k], 0)],
           directory_probes(Len(required_dirs)) \o file_probes(Len(required_files)))

validate_project_structure(f) ==
    LET d == directories_stop(f, 1)
        g == files_stop(f, 1)
        nd == Len(required_dirs)
        nf == Len(required_files)
    IN  IF d <= nd
        THEN Result(FALSE, directory_lines(d, TRUE), directory_probes(d))
        ELSE IF g <= nf
        THEN Result(FALSE, directory_lines(nd, FALSE) \o file_lines(g, TRUE),
                    directory_probes(nd) \o file_probes(g))
        ELSE Result(TRUE, directory_lines(nd, FALSE) \o file_lines(nf, FALSE),
                    directory_probes(nd) \o file_probes(nf))

(***************************************************************************)
(* validate_notebooks (lines 48-78)                                        *)
(***************************************************************************)
\* variant: content without a "cells" key is reported and the loop goes on
\* (the return False of line 66 left out)
notebook_try_no_return(f, notebook) ==
    LET content == json_load(f, notebook)
        has == py_in("cells", content.val)
        cells == py_getitem(content.val, "cells")
        cell_count == py_len(cells.val)
        fn == "validate_notebooks"
    IN  IF content.exc # "none" THEN [exc |-> content.exc, returns |-> FALSE, out |-> <<>>]
        ELSE IF has.exc # "none" THEN [exc |-> has.exc, returns |-> FALSE, out |-> <<>>]
        ELSE IF ~has.val
             THEN [exc |-> "none", returns |-> FALSE,
                   out |-> <<Line(fn, "fail", "Missing 'cells' key", notebook, 0)>>]
        ELSE IF cells.exc # "none" THEN [exc |-> cells.exc, returns |-> FALSE, out |-> <<>>]
        ELSE IF cell_count.exc # "none"
             THEN [exc |-> cell_count.exc, returns |-> FALSE, out |-> <<>>]
        ELSE [exc |-> "none", returns |-> FALSE,
              out |-> <<Line(fn, "ok", "cells - Valid structure", notebook,
                             cell_count.val)>>]

\* the try body for one notebook (lines 61-69): the line it prints, whether it
\* returns False, and the exception raised inside it
notebook_try(f, notebook) ==
    LET content == json_load(f, notebook)
        has == py_in("cells", content.val)
        cells == py_getitem(content.val, "cells")
        cell_count == py_len(cells.val)
        fn == "validate_notebooks"
    IN  IF content.exc # "none" THEN [exc |-> content.exc, returns |-> FALSE, out |-> <<>>]
        ELSE IF has.exc # "none" THEN [exc |-> has.exc, returns |-> FALSE, out |-> <<>>]
        ELSE IF ~has.val
             THEN [exc |-> "none", returns |-> TRUE,
                   out |-> <<Line(fn, "fail", "Missing 'cells' key", notebook, 0)>>]
        ELSE IF cells.exc # "none" THEN [exc |-> cells.exc, returns |-> FALSE, out |-> <<>>]
        ELSE IF cell_count.exc # "none"
             THEN [exc |-> cell_count.exc, returns |-> FALSE, out |-> <<>>]
        ELSE [exc |-> "none", returns |-> FALSE,
              out |-> <<Line(fn, "ok", "cells - Valid structure", notebook,
                             cell_count.val)>>]

\* variant: only the json.JSONDecodeError clause (the clause of lines 74-76 left out)
notebook_except_json_only(exc, notebook) ==
    IF exc = "JSONDecodeError"
    THEN [caught |-> TRUE,
          out |-> <<Line("validate_notebooks", "fail", "Invalid JSON", notebook, 0)>>]
    ELSE [caught |-> FALSE, out |-> <<>>]

\* the except clauses (lines 71-76): the first matching clause handles the
\* exception, prints its line and returns False; an unmatched one leaves the function
notebook_except(exc, notebook) ==
    IF exc = "JSONDecodeError"
    THEN [caught |-> TRUE,
          out |-> <<Line("validate_notebooks", "fail", "Invalid JSON", notebook, 0)>>]
    ELSE IF exc \in ExceptionClasses
    THEN [caught |-> TRUE,
          out |-> <<Line("validate_notebooks", "fail", "Error", notebook, 0)>>]
    ELSE [caught |-> FALSE, out |-> <<>>]

\* the loop over notebooks (lines 59-76) from item i on: the index of the
\* notebook at which it stops, Len(notebooks) + 1 when it runs to its end
RECURSIVE notebooks_stop(_, _)
notebooks_stop(f, i) ==
    IF i > Len(notebooks) THEN i
    ELSE IF \E t \in {notebook_try(f, notebooks[i])} : t.exc = "none" /\ ~t.returns
    THEN notebooks_stop(f, i + 1)
    ELSE i

\* what the function yields when its loop stops at notebook m: the lines of
\* the notebooks before m, then the line of the return or of the except clause
notebooks_result(f, m) ==
    LET n == Len(notebooks)
        passed == [k \in 1..(IF m > n THEN n ELSE m - 1) |->
                      notebook_try(f, notebooks[k]).out[1]]
        opened == [k \in 1..(IF m > n THEN n ELSE m) |->
                      Probe("validate_notebooks", "open", notebooks[k])]
        t == notebook_try(f, notebooks[m])
        h == notebook_except(t.exc, notebooks[m])
    IN  IF m > n THEN Result(TRUE, passed, opened)
        ELSE IF t.exc = "none" THEN Result(FALSE, passed \o t.out, opened)
        ELSE IF h.caught THEN Result(FALSE, passed \o h.out, opened)
        ELSE [ret |-> FALSE, raised |-> t.exc, out |-> passed, probes |-> opened]

validate_notebooks(f) ==
    [m \in 1..(Len(notebooks) + 1) |-> notebooks_result(f, m)][notebooks_stop(f, 1)]

(***************************************************************************)
(* validate_data_pipeline (lines 80-110)                                   *)
(***************************************************************************)
\* variant: a missing README fails the check
validate_data_pipeline_strict(f) ==
    LET fn == "validate_data_pipeline"
        readmes == [k \in DOMAIN expected_data_flow |->
                       readme_file(expected_data_flow[k].layer)] \o <<models_readme>>
    IN  Result(\A k \in DOMAIN readmes : os_path_isfile(f, readmes[k]),
               [k \in DOMAIN readmes |->
                   IF os_path_isfile(f, readmes[k])
                   THEN Line(fn, "ok", "documentation exists", readmes[k], 0)
                   ELSE Line(fn, "fail", "Missing documentation", readmes[k], 0)],
               [k \in DOMAIN readmes |-> Probe(fn, "isfile", readmes[k])])

\* variant: the model artifacts are tested for existence and fail the check
validate_data_pipeline_artifacts(f) ==
    LET fn == "validate_data_pipeline"
        readmes == [k \in DOMAIN expected_data_flow |->
                       readme_file(expected_data_flow[k].layer)] \o <<models_readme>>
        artifacts == [k \in DOMAIN model_artifacts |-> "models/" \o model_artifacts[k]]
    IN  Result(\A k \in DOMAIN artifacts : os_path_isfile(f, artifacts[k]),
               [k \in DOMAIN readmes |->
                   IF os_path_isfile(f, readmes[k])
                   THEN Line(fn, "ok", "documentation exists", readmes[k], 0)
                   ELSE Line(fn, "fail", "Missing documentation", readmes[k], 0)],
               [k \in DOMAIN readmes |-> Probe(fn, "isfile", readmes[k])]
               \o [k \in DOMAIN artifacts |-> Probe(fn, "isfile", artifacts[k])])

\* the loop over expected_data_flow.items() (lines 91-96): one line per layer;
\* expected_files is bound and not used, and so is model_artifacts
validate_data_pipeline(f) ==
    LET fn == "validate_data_pipeline"
    IN  Result(TRUE,
               [k \in DOMAIN expected_data_flow |->
                   LET layer == expected_data_flow[k].layer
                   IN  IF os_path_isfile(f, readme_file(layer))
                       THEN Line(fn, "ok", "layer documentation exists", layer, 0)
                       ELSE Line(fn, "fail", "Missing layer documentation", layer, 0)]
               \o <<IF os_path_isfile(f, models_readme)
                    THEN Line(fn, "ok", "Models documentation exists", models_readme, 0)
                    ELSE Line(fn, "fail", "Missing models documentation",
                              models_readme, 0)>>,
               [k \in DOMAIN expected_data_flow |->
                   Probe(fn, "isfile", readme_file(expected_data_flow[k].layer))]
               \o <<Probe(fn, "isfile", models_readme)>>)

(***************************************************************************)
(* validate_requirements (lines 112-136)                                   *)
(***************************************************************************)
\* variant: `package in requirements`, the text not lowered
package_specified_as_written(package, requirements) ==
    str_contains(Chars[package], requirements)

\* `package in requirements.lower()` (line 126): lower() keeps the length of
\* the text, so the search reads the lowered text character by character
package_specified(package, requirements) ==
    \E k \in 0..(Len(requirements) - Len(Chars[package])) :
        \A j \in 1..Len(Chars[package]) :
            lower_char(requirements[k + j]) = Chars[package][j]

\* the loop over essential_packages (lines 125-130) from item i on: the index of
\* the package at which it returns False, Len(essential_packages) + 1 when it
\* runs to its end
RECURSIVE packages_stop(_, _)
packages_stop(requirements, i) ==
    IF i > Len(essential_packages) THEN i
    ELSE IF package_specified(essential_packages[i], requirements)
    THEN packages_stop(requirements, i + 1)
    ELSE i

\* the lines of the loop for its first n packages, the last one failing or not
package_lines(n, fails) ==
    [k \in 1..n |->
        IF fails /\ k = n
        THEN Line("validate_requirements", "fail", "missing from requirements",
                  essential_packages[k], 0)
        ELSE Line("validate_requirements", "ok", "specified in requirements",
                  essential_packages[k], 0)]

validate_requirements(f) ==
    LET fn == "validate_requirements"
        o == open_read(f, "requirements.txt")
        pr == <<Probe(fn, "open", "requirements.txt")>>
        n == Len(essential_packages)
        m == packages_stop(f.text["requirements.txt"], 1)
    IN  IF o.exc # "none"
        THEN IF o.exc \in ExceptionClasses
             THEN Result(FALSE,
                         <<Line(fn, "fail", "Error reading requirements.txt",
                                "requirements.txt", 0)>>,
                         pr)
             ELSE [ret |-> FALSE, raised |-> o.exc, out |-> <<>>, probes |-> pr]
        ELSE IF m > n THEN Result(TRUE, package_lines(n, FALSE), pr)
        ELSE Result(FALSE, package_lines(m, TRUE), pr)

(***************************************************************************)
(* validate_gitignore (lines 138-161)                                      *)
(***************************************************************************)
\* the loop over essential_patterns (lines 151-155): one line per pattern
pattern_lines(gitignore) ==
    [k \in DOMAIN essential_patterns |->
        IF str_contains(Chars[essential_patterns[k]], gitignore)
        THEN Line("validate_gitignore", "ok", "pattern included", essential_patterns[k], 0)
        ELSE Line("validate_gitignore", "warn", "pattern might be missing",
                  essential_patterns[k], 0)]

\* variant: a missing pattern fails the check
validate_gitignore_strict(f) ==
    LET o == open_read(f, ".gitignore")
        pr == <<Probe("validate_gitignore", "open", ".gitignore")>>
        lines == pattern_lines(f.text[".gitignore"])
    IN  IF o.exc # "none"
        THEN Result(FALSE,
                    <<Line("validate_gitignore", "fail",
                           "Error reading .gitignore", ".gitignore", 0)>>,
                    pr)
        ELSE Result(\A k \in DOMAIN lines : lines[k].mark = "ok", lines, pr)

validate_gitignore(f) ==
    LET o == open_read(f, ".gitignore")
        pr == <<Probe("validate_gitignore", "open", ".gitignore")>>
    IN  IF o.exc # "none"
        THEN IF o.exc \in ExceptionClasses
             THEN Result(FALSE,
                         <<Line("validate_gitignore", "fail",
                                "Error reading .gitignore", ".gitignore", 0)>>,
                         pr)
             ELSE [ret |-> FALSE, raised |-> o.exc, out |-> <<>>, probes |-> pr]
        ELSE Result(TRUE, pattern_lines(f.text[".gitignore"]), pr)

(***************************************************************************)
(* main (lines 163-192)                                                    *)
(***************************************************************************)
banner_passed ==
    <<Line("main", "ok", "All validation checks passed!", "", 0),
      Line("main", "ok", "Project structure is correctly implemented", "", 0),
      Line("main", "ok", "Ready for notebook execution with proper dependencies", "", 0)>>

banner_failed ==
    <<Line("main", "fail", "Some validation checks failed", "", 0),
      Line("main", "fail", "Please review and fix the issues above", "", 0)>>

\* lines 165-168
MainStart ==
    /\ pc = "start"
    /\ out' = <<Line("main", "info", "E-commerce Retention Predictor - Project Validation",
                     "", 0)>>
    /\ all_checks_passed' = TRUE
    /\ idx' = 1
    /\ pc' = "loop"
    /\ UNCHANGED <<fs, returned, probes, exit_status>>

\* variant: the result of the last check called decides
\* (all_checks_passed = check() in the loop)
Call_last_wins(r) ==
    /\ out' = out \o r.out
    /\ probes' = probes \o r.probes
    /\ IF r.raised # "none"
       THEN /\ pc' = "crashed"
            /\ exit_status' = <<1>>
            /\ UNCHANGED <<idx, all_checks_passed, returned>>
       ELSE /\ returned' = Append(returned, [check |-> checks[idx], ret |-> r.ret])
            /\ all_checks_passed' = r.ret
            /\ idx' = idx + 1
            /\ pc' = IF idx = Len(checks) THEN "summary" ELSE "loop"
            /\ UNCHANGED exit_status
    /\ UNCHANGED fs

\* one pass of the loop of lines 179-181, the check called having outcome r; an
\* exception leaving the check leaves main too and ends the process with status 1
Call(r) ==
    /\ out' = out \o r.out
    /\ probes' = probes \o r.probes
    /\ IF r.raised # "none"
       THEN /\ pc' = "crashed"
            /\ exit_status' = <<1>>
            /\ UNCHANGED <<idx, all_checks_passed, returned>>
       ELSE /\ returned' = Append(returned, [check |-> checks[idx], ret |-> r.ret])
            /\ all_checks_passed' = IF ~r.ret THEN FALSE ELSE all_checks_passed
            /\ idx' = idx + 1
            /\ pc' = IF idx = Len(checks) THEN "summary" ELSE "loop"
            /\ UNCHANGED exit_status
    /\ UNCHANGED fs

\* the loop has reached the entry `name` of checks
At(name) == pc = "loop" /\ idx <= Len(checks) /\ checks[idx] = name

CallProjectStructure ==
    /\ At("validate_project_structure")
    /\ \E r \in {validate_project_structure(fs)} : Call(r)

CallNotebooks ==
    /\ At("validate_notebooks")
    /\ \E r \in {validate_notebooks(fs)} : Call(r)

CallDataPipeline ==
    /\ At("validate_data_pipeline")
    /\ \E r \in {validate_data_pipeline(fs)} : Call(r)

CallRequirements ==
    /\ At("validate_requirements")
    /\ \E r \in {validate_requirements(fs)} : Call(r)

CallGitignore ==
    /\ At("validate_gitignore")
    /\ \E r \in {validate_gitignore(fs)} : Call(r)

\* lines 183-192 and sys.exit(main()) of line 195
MainSummary ==
    /\ pc = "summary"
    /\ out' = out \o (IF all_checks_passed THEN banner_passed ELSE banner_failed)
    /\ exit_status' = <<IF all_checks_passed THEN 0 ELSE 1>>
    /\ pc' = "done"
    /\ UNCHANGED <<fs, idx, all_checks_passed, returned, probes>>

Next ==
    \/ MainStart
    \/ CallProjectStructure
    \/ CallNotebooks
    \/ CallDataPipeline
    \/ CallRequirements
    \/ CallGitignore
    \/ MainSummary

(***************************************************************************)
(* The filesystems a run starts from.                                      *)
(***************************************************************************)
Range(s) == {s[k] : k \in DOMAIN s}

Layers == {expected_data_flow[k].layer : k \in DOMAIN expected_data_flow}

\* the enumerated data and model artifacts, as paths of the layout
ArtifactPaths ==
    UNION {{"data/" \o expected_data_flow[k].layer \o "/" \o x :
               x \in Range(expected_data_flow[k].files)} : k \in DOMAIN expected_data_flow}
    \cup {"models/" \o x : x \in Range(model_artifacts)}

ReadmePaths == {readme_file(l) : l \in Layers} \cup {models_readme}

RequiredPaths == Range(required_dirs) \cup Range(required_files)

AllPaths == RequiredPaths \cup ReadmePaths \cup ArtifactPaths

TextPaths == {"requirements.txt", ".gitignore"}

\* child and directory holding it, for every path below the working directory
Tree ==
    {<<"data/" \o l, "data">> : l \in Layers}
    \cup {<<n, "notebooks">> : n \in Range(notebooks)}
    \cup {<<readme_file(l), "data/" \o l>> : l \in Layers}
    \cup {<<models_readme, "models">>}
    \cup UNION {{<<"data/" \o expected_data_flow[k].layer \o "/" \o x,
                   "data/" \o expected_data_flow[k].layer>> :
                    x \in Range(expected_data_flow[k].files)} :
                k \in DOMAIN expected_data_flow}
    \cup {<<"models/" \o x, "models">> : x \in Range(model_artifacts)}

\* the directory holding p ("." is the working directory)
ParentOf ==
    [p \in AllPaths |->
        IF \E e \in Tree : e[1] = p THEN (CHOOSE e \in Tree : e[1] = p)[2] ELSE "."]

\* the directories above p
AncestorsOf ==
    [p \in AllPaths |->
        IF ParentOf[p] = "." THEN {}
        ELSE IF ParentOf[ParentOf[p]] = "." THEN {ParentOf[p]}
        ELSE {ParentOf[p], ParentOf[ParentOf[p]]}]

\* a notebook cell and a notebook document with n cells
Cell == JObj([cell_type |-> JStr(<<"c", "o", "d", "e">>)])

NotebookDoc(n) ==
    [wellformed |-> TRUE,
     value |-> JObj([cells |-> JArr([k \in 1..n |-> Cell]), nbformat |-> JNum(4)])]

RECURSIVE Lines(_, _)
\* the text with line(k) for k = i..n, each ended by a newline
Lines(row, i) ==
    IF i > Len(row) THEN <<>> ELSE row[i] \o <<"\n">> \o Lines(row, i + 1)

CompleteRequirements == Lines([k \in DOMAIN essential_packages |-> Chars[essential_packages[k]]], 1)

CompleteGitignore == Lines([k \in DOMAIN essential_patterns |-> Chars[essential_patterns[k]]], 1)

\* the complete project layout: everything present, notebooks valid
CompleteKind(p) == IF p \in Range(required_dirs) THEN "dir" ELSE "file"


InvalidDoc == [wellformed |-> FALSE, value |-> JNull]

Doc(v) == [wellformed |-> TRUE, value |-> v]

\* valid JSON texts that are no notebook
OddDocs ==
    {Doc(v) : v \in
       {JNull, JBool(TRUE), JNum(1),
        JStr(<<"c", "e", "l", "l">>), JStr(<<"x", "c", "e", "l", "l", "s", "x">>),
        JArr(<<JNum(1)>>), JArr(<<JNum(1), JStr(Chars["cells"])>>),
        JObj([metadata |-> JNull]),
        JObj([cells |-> JNull]), JObj([cells |-> JNum(2)]), JObj([cells |-> JBool(FALSE)]),
        JObj([cells |-> JStr(<<"a", "b">>)]), JObj([cells |-> JObj([a |-> JNull])])}}

GoodDocs == {NotebookDoc(n) : n \in 0..MaxCells}

Docs == {InvalidDoc} \cup OddDocs \cup GoodDocs

\* a deviation of one path from the complete layout
KindFault(p, k) == [what |-> "kind", path |-> p, kind |-> k]
Unreadable(p) == [what |-> "unreadable", path |-> p]
DocFault(p, d) == [what |-> "doc", path |-> p, doc |-> d]
TextFault(p, t) == [what |-> "text", path |-> p, text |-> t]

\* the layout with the deviations S; what lies below a path that is no
\* directory does not exist
ApplyFaults(S) ==
    LET kind0 == [p \in AllPaths |->
                    IF \E x \in S : x.what = "kind" /\ x.path = p
                    THEN (CHOOSE x \in S : x.what = "kind" /\ x.path = p).kind
                    ELSE CompleteKind(p)]
        kind == [p \in AllPaths |->
                    IF \E a \in AncestorsOf[p] : kind0[a] # "dir"
                    THEN "missing" ELSE kind0[p]]
    IN  [kind |-> kind,
         readable |-> [p \in Range(notebooks) \cup TextPaths |->
                          ~(kind[p] = "file" /\ Unreadable(p) \in S)],
         doc |-> [p \in Range(notebooks) |->
                    IF kind[p] = "file" /\ \E x \in S : x.what = "doc" /\ x.path = p
                    THEN (CHOOSE x \in S : x.what = "doc" /\ x.path = p).doc
                    ELSE NotebookDoc(1)],
         text |-> [p \in TextPaths |->
                    IF kind[p] = "file" /\ \E x \in S : x.what = "text" /\ x.path = p
                    THEN (CHOOSE x \in S : x.what = "text" /\ x.path = p).text
                    ELSE IF p = "requirements.txt" THEN CompleteRequirements
                    ELSE CompleteGitignore]]

\* the state main() starts in, on filesystem f
Start(f) ==
    /\ fs = f
    /\ pc = "start"
    /\ idx = 0
    /\ all_checks_passed = TRUE
    /\ returned = <<>>
    /\ out = <<>>
    /\ probes = <<>>
    /\ exit_status = <<>>


(***************************************************************************)
(* Input texts.                                                            *)
(***************************************************************************)
\* one manifest entry for a package: as named, in upper case, or capitalised
\* and pinned to a version
ManifestEntry(package, style) ==
    LET cs == Chars[package]
    IN  CASE style = "lower" -> cs
          [] style = "upper" -> str_upper(cs)
          [] style = "pinned" -> <<upper_char(Head(cs))>> \o Tail(cs)
                                  \o <<"=", "=", "1", ".", "0">>

\* a manifest naming the packages of `present`; with `decoy`, every other
\* package leaves its name cut short by one character
Manifest(present, style, decoy) ==
    Lines([k \in DOMAIN essential_packages |->
             LET package == essential_packages[k]
             IN  IF package \in present THEN ManifestEntry(package, style)
                 ELSE IF decoy THEN SubSeq(Chars[package], 1, Len(Chars[package]) - 1)
                 ELSE <<>>], 1)

\* an ignore file holding the patterns of `present`, as written or in upper case
IgnoreFile(present, style) ==
    Lines([k \in DOMAIN essential_patterns |->
             LET pattern == essential_patterns[k]
             IN  IF pattern \notin present THEN <<>>
                 ELSE IF style = "upper" THEN str_upper(Chars[pattern])
                 ELSE Chars[pattern]], 1)

(***************************************************************************)
(* Spec: layouts with at most MaxFaults deviations from the complete one.  *)
(***************************************************************************)
Kinds == {"missing", "file", "dir"}

Faults ==
    {KindFault(p, "missing") : p \in RequiredPaths \cup ReadmePaths}
    \cup {KindFault("models", "file"), KindFault("requirements.txt", "dir"),
          KindFault(".gitignore", "dir"), KindFault(notebooks[1], "dir")}
    \cup {KindFault("data/raw/customers.csv", "missing"),
          KindFault("data/stage/cleaned_customers.csv", "missing"),
          KindFault("data/processed/training_data.csv", "missing"),
          KindFault("models/retention_model.h5", "missing")}
    \cup {Unreadable(p) : p \in Range(notebooks) \cup TextPaths}
    \cup {DocFault(pd[1], pd[2]) :
            pd \in Range(notebooks) \X
                   {InvalidDoc, Doc(JObj([metadata |-> JNull])),
                    Doc(JObj([cells |-> JNull]))}}
    \cup {TextFault("requirements.txt", t) :
            t \in {Manifest(Range(essential_packages) \ {"tensorflow"}, "lower", FALSE),
                   Manifest(Range(essential_packages), "upper", FALSE)}}
    \cup {TextFault(".gitignore", t) :
            t \in {IgnoreFile({}, "exact"),
                   IgnoreFile(Range(essential_patterns) \ {".env"}, "exact")}}

\* the sets of at most n deviations, no two of them of the same path
RECURSIVE FaultSets(_)
FaultSets(n) ==
    IF n = 0 THEN {{}}
    ELSE LET less == FaultSets(n - 1)
         IN  less \cup
             {Sx[1] \cup {Sx[2]} :
                Sx \in {Ty \in less \X Faults : \A z \in Ty[1] : z.path # Ty[2].path}}

Init == \E S \in FaultSets(MaxFaults) : Start(ApplyFaults(S))

Spec == Init /\ [][Next]_vars

\* a running program takes its next step
FairSpec == Init /\ [][Next]_vars /\ WF_vars(Next)


(***************************************************************************)
(* SpecStructure: every set of required items present, at most one of the  *)
(* present items being of the other type, the other files complete.        *)
(***************************************************************************)
WrongKind(p) == IF CompleteKind(p) = "dir" THEN "file" ELSE "dir"

InitStructure ==
    \E present \in SUBSET RequiredPaths : \E w \in present \cup {"."} :
        Start(ApplyFaults({KindFault(p, "missing") : p \in RequiredPaths \ present}
                          \cup {KindFault(p, WrongKind(p)) : p \in present \cap {w}}))

SpecStructure == InitStructure /\ [][Next]_vars

(***************************************************************************)
(* SpecNotebooks: the complete layout, one notebook holding any document   *)
(* of Docs or being unreadable, each other notebook being a notebook, an   *)
(* invalid text, an object without cells, a number, or unreadable.         *)
(***************************************************************************)
NotebookFaults(p) == {DocFault(p, d) : d \in Docs} \cup {Unreadable(p)}

BasicFaults(p) ==
    {DocFault(p, d) : d \in {NotebookDoc(1), InvalidDoc, Doc(JObj([metadata |-> JNull])),
                             Doc(JNum(1))}}
    \cup {Unreadable(p)}

NotebookChoices(k, i) ==
    IF k = i THEN NotebookFaults(notebooks[k]) ELSE BasicFaults(notebooks[k])

InitNotebooks ==
    \E i \in DOMAIN notebooks :
        \E x \in NotebookChoices(1, i) \X NotebookChoices(2, i)
                 \X NotebookChoices(3, i) \X NotebookChoices(4, i) :
            Start(ApplyFaults(Range(x)))

SpecNotebooks == InitNotebooks /\ [][Next]_vars

(***************************************************************************)
(* SpecRequirements: the complete layout, the manifest naming any subset   *)
(* of the packages in any style, or being unreadable or no file.           *)
(***************************************************************************)
ManifestFaults ==
    {TextFault("requirements.txt", Manifest(m[1], m[2], m[3])) :
        m \in (SUBSET Range(essential_packages)) \X {"lower", "upper", "pinned"} \X BOOLEAN}
    \cup {Unreadable("requirements.txt"),
          KindFault("requirements.txt", "missing"), KindFault("requirements.txt", "dir")}

InitRequirements == \E x \in ManifestFaults : Start(ApplyFaults({x}))

SpecRequirements == InitRequirements /\ [][Next]_vars

(***************************************************************************)
(* SpecGitignore: the complete layout, the ignore file holding any subset  *)
(* of the patterns, as written or in upper case, or being unreadable or no *)
(* file.                                                                   *)
(***************************************************************************)
IgnoreFaults ==
    {TextFault(".gitignore", IgnoreFile(g[1], g[2])) :
        g \in (SUBSET Range(essential_patterns)) \X {"exact", "upper"}}
    \cup {Unreadable(".gitignore"),
          KindFault(".gitignore", "missing"), KindFault(".gitignore", "dir")}

InitGitignore == \E x \in IgnoreFaults : Start(ApplyFaults({x}))

SpecGitignore == InitGitignore /\ [][Next]_vars


(***************************************************************************)
(* Properties.                                                             *)
(***************************************************************************)
\* what main returns on filesystem f (lines 168-192)
main_status(f) ==
    IF /\ validate_project_structure(f).ret
       /\ validate_notebooks(f).ret
       /\ validate_data_pipeline(f).ret
       /\ validate_requirements(f).ret
       /\ validate_gitignore(f).ret
    THEN 0 ELSE 1

LinesOf(fn) == SelectSeq(out, LAMBDA l : l.fn = fn)

ProbesOf(fn) == SelectSeq(probes, LAMBDA q : q.fn = fn)

Printed(text) == \E k \in DOMAIN out : out[k].text = text

\* check number k has returned / has returned True
Returned(k) == Len(returned) >= k
Passed(k) == Returned(k) /\ returned[k].ret

CanRead(p) == fs.kind[p] = "file" /\ fs.readable[p]

\* C1: main() returns exit status 0 if and only if each of the five checkers
\* returned true in the run, 1 if at least one returned false, and the success
\* banner is printed exactly when it returns 0.
C1_ExitStatus ==
    /\ pc = "done" =>
          /\ Len(returned) = 5
          /\ Len(exit_status) = 1
          /\ exit_status[1] = 0 <=> \A k \in 1..5 : returned[k].ret
          /\ exit_status[1] = 1 <=> \E k \in 1..5 : ~returned[k].ret
    /\ Printed("All validation checks passed!") <=> exit_status = <<0>>
    /\ Printed("Some validation checks failed") <=> exit_status = <<1>>

\* a run that fails on its last checker alone
C1_Witness ==
    /\ pc = "done"
    /\ exit_status = <<1>>
    /\ \A k \in 1..4 : returned[k].ret
    /\ ~returned[5].ret

\* C2: every run of main() terminates with an exit status, having called the
\* five checkers once each in the order of the checks list; no exception
\* leaves a checker, and a checker returning false does not stop the later ones.
C2_Terminates ==
    /\ <>(pc = "done" /\ Len(exit_status) = 1)
    /\ [](pc # "crashed")
    /\ []([k \in DOMAIN returned |-> returned[k].check] = SubSeq(checks, 1, Len(returned)))
    /\ [](pc = "done" => Len(returned) = Len(checks))

\* a finished run whose notebook checker went through the generic handler
\* and whose structure checker failed too
C2_Witness ==
    /\ pc = "done"
    /\ Len(returned) = 5
    /\ ~returned[1].ret
    /\ ~returned[2].ret
    /\ \E k \in DOMAIN out : out[k].fn = "validate_notebooks" /\ out[k].text = "Error"


\* the required items in the order the structure checker examines them
Required == required_dirs \o required_files

RightKind(k) ==
    fs.kind[Required[k]] = (IF k <= Len(required_dirs) THEN "dir" ELSE "file")

StructureComplete == \A k \in DOMAIN Required : RightKind(k)

\* filesystem f with path p, and what lies below it, removed
Remove(f, p) ==
    [f EXCEPT !.kind = [q \in AllPaths |->
                           IF q = p \/ p \in AncestorsOf[q] THEN "missing" ELSE f.kind[q]]]

\* C3: validate_project_structure returns true if and only if each of the six
\* required directories is a directory and each of the seven required files is
\* a regular file; from a layout where it returns true, removing any one
\* required item makes it return false.
C3_StructureIff ==
    Returned(1) =>
        /\ returned[1].ret <=> StructureComplete
        /\ returned[1].ret =>
              \A p \in RequiredPaths : ~validate_project_structure(Remove(fs, p)).ret

\* the checker fails on a directory standing where a required file is expected
C3_Witness ==
    /\ Returned(1)
    /\ ~returned[1].ret
    /\ fs.kind["README.md"] = "dir"
    /\ \A k \in DOMAIN Required : Required[k] # "README.md" => RightKind(k)

\* C9: validate_project_structure examines the directories, then the files,
\* in list order and returns false at the first missing item: a failing run
\* prints one missing-item line, all items before it were reported present and
\* no item after it is examined.  With notebooks/02_data_cleaning.ipynb alone
\* missing it fails at that file, after six directories and four files, and
\* main exits with status 1.
C9_StopsAtFirstMissing ==
    LET L == LinesOf("validate_project_structure")
        Q == ProbesOf("validate_project_structure")
        n == Len(L)
    IN  /\ Returned(1) /\ ~returned[1].ret =>
              /\ n \in 1..Len(Required)
              /\ Len(Q) = n
              /\ \A k \in 1..n :
                    /\ L[k].item = Required[k]
                    /\ Q[k].path = Required[k]
                    /\ Q[k].op = (IF k <= Len(required_dirs) THEN "isdir" ELSE "isfile")
              /\ \A k \in 1..(n - 1) : L[k].mark = "ok" /\ RightKind(k)
              /\ L[n].mark = "fail"
              /\ ~RightKind(n)
              /\ L[n].text =
                    (IF n <= Len(required_dirs) THEN "Missing directory" ELSE "Missing file")
        /\ /\ Returned(1)
           /\ fs.kind[notebooks[2]] = "missing"
           /\ \A k \in DOMAIN Required : Required[k] # notebooks[2] => RightKind(k)
           => /\ ~returned[1].ret
              /\ n = Len(required_dirs) + 4 + 1
              /\ L[n].item = "notebooks/02_data_cleaning.ipynb"
              /\ pc = "done" => exit_status = <<1>>

\* the run on the layout that misses notebooks/02_data_cleaning.ipynb alone
C9_Witness ==
    /\ pc = "done"
    /\ fs.kind[notebooks[2]] = "missing"
    /\ \A k \in DOMAIN Required : Required[k] # notebooks[2] => RightKind(k)
    /\ exit_status = <<1>>
    /\ Len(LinesOf("validate_project_structure")) = 11

\* the shapes of a notebook file
ValidJson(p) == CanRead(p) /\ fs.doc[p].wellformed
InvalidJson(p) == CanRead(p) /\ ~fs.doc[p].wellformed

LacksCells(p) ==
    /\ ValidJson(p)
    /\ fs.doc[p].value.type = "object"
    /\ "cells" \notin DOMAIN fs.doc[p].value.members

\* an object with a "cells" key whose value has a length
Accepted(p) ==
    /\ ValidJson(p)
    /\ fs.doc[p].value.type = "object"
    /\ "cells" \in DOMAIN fs.doc[p].value.members
    /\ fs.doc[p].value.members["cells"].type \in {"array", "string", "object"}

\* C4: validate_notebooks returns false whenever one of the four notebooks
\* holds invalid JSON or an object without a "cells" key, whatever the other
\* three hold; it returns true only when all four notebooks pass.
C4_NotebooksAllPass ==
    Returned(2) =>
        /\ (\E k \in DOMAIN notebooks :
               InvalidJson(notebooks[k]) \/ LacksCells(notebooks[k]))
           => ~returned[2].ret
        /\ returned[2].ret => \A k \in DOMAIN notebooks : Accepted(notebooks[k])

\* three good notebooks followed by one of invalid JSON
C4_Witness ==
    /\ Returned(2)
    /\ ~returned[2].ret
    /\ \A k \in 1..3 : Accepted(notebooks[k])
    /\ InvalidJson(notebooks[4])
    /\ \E k \in DOMAIN out : out[k].text = "Invalid JSON" /\ out[k].item = notebooks[4]

\* valid JSON that `'cells' not in content` finds no "cells" in: an object
\* without the key, an array without the element, a string without the substring
FoundWithoutCells(p) ==
    LET v == fs.doc[p].value
    IN  /\ ValidJson(p)
        /\ \/ v.type = "object" /\ "cells" \notin DOMAIN v.members
           \/ v.type = "array" /\ ~\E k \in DOMAIN v.elems :
                                      v.elems[k] = JStr(<<"c", "e", "l", "l", "s">>)
           \/ v.type = "string" /\ ~\E k \in 0..(Len(v.chars) - 5) :
                                       SubSeq(v.chars, k + 1, k + 5)
                                         = <<"c", "e", "l", "l", "s">>

\* the contents the claim lists: a top-level array, string, number, boolean or
\* null, or an object whose "cells" value has no length
ListedOdd(p) ==
    /\ ValidJson(p)
    /\ ~Accepted(p)
    /\ ~LacksCells(p)

\* notebook k is the first one that is not accepted
FirstRejected(k) ==
    /\ ~Accepted(notebooks[k])
    /\ \A j \in 1..(k - 1) : Accepted(notebooks[j])

\* the checker stopped at notebook k with a failure line of the given text
StoppedAt(k, text) ==
    LET L == LinesOf("validate_notebooks")
        Q == ProbesOf("validate_notebooks")
    IN  /\ ~returned[2].ret
        /\ Len(L) = k
        /\ L[k].mark = "fail" /\ L[k].item = notebooks[k] /\ L[k].text = text
        /\ \A j \in 1..(k - 1) : L[j].mark = "ok" /\ L[j].item = notebooks[j]
        /\ [j \in DOMAIN Q |-> Q[j].path] = SubSeq(notebooks, 1, k)

\* C10 as stated: every valid JSON content that is no object with a sized
\* "cells" value makes the checker return false through its generic error
\* handler (the "Error" line), without raising and without opening the
\* notebooks after it.
C10_AsStated ==
    /\ pc # "crashed"
    /\ Returned(2) =>
          /\ returned[2].ret => \A k \in DOMAIN notebooks : Accepted(notebooks[k])
          /\ \A k \in DOMAIN notebooks :
                FirstRejected(k) /\ ListedOdd(notebooks[k]) => StoppedAt(k, "Error")

\* C10, amended: such content makes the checker return false without raising
\* and without opening the notebooks after it; it does so through the generic
\* error handler, except for content in which no "cells" is found (an array
\* without the element "cells", a string without the substring, an object
\* without the key), which ends in the "Missing 'cells' key" branch.
C10_OddContent ==
    /\ pc # "crashed"
    /\ Returned(2) =>
          /\ returned[2].ret => \A k \in DOMAIN notebooks : Accepted(notebooks[k])
          /\ \A k \in DOMAIN notebooks :
                FirstRejected(k) /\ ValidJson(notebooks[k]) =>
                    StoppedAt(k, IF FoundWithoutCells(notebooks[k])
                                 THEN "Missing 'cells' key" ELSE "Error")

\* a top-level array without the element "cells" in the second notebook
C10_Witness ==
    /\ Returned(2)
    /\ Accepted(notebooks[1])
    /\ ValidJson(notebooks[2])
    /\ fs.doc[notebooks[2]].value.type = "array"
    /\ FoundWithoutCells(notebooks[2])
    /\ StoppedAt(2, "Missing 'cells' key")


\* package number k occurs in the manifest, letter case ignored on both sides
InManifest(k) ==
    LET text == fs.text["requirements.txt"]
        name == Chars[essential_packages[k]]
    IN  \E i \in 0..(Len(text) - Len(name)) :
           \A j \in 1..Len(name) : upper_char(text[i + j]) = upper_char(name[j])

\* C5: validate_requirements returns true for a readable manifest holding all
\* eight package names, letter case ignored; for a manifest missing one it
\* returns false and prints one failure line, naming the first missing package
\* in list order, no later package being examined or reported; it returns
\* false if the manifest cannot be read.
C5_Requirements ==
    LET L == LinesOf("validate_requirements")
        missing == {k \in DOMAIN essential_packages : ~InManifest(k)}
        first == CHOOSE k \in missing : \A j \in missing : k <= j
    IN  Returned(4) =>
          /\ ~CanRead("requirements.txt") =>
                /\ ~returned[4].ret
                /\ Len(L) = 1 /\ L[1].mark = "fail" /\ L[1].item = "requirements.txt"
          /\ CanRead("requirements.txt") /\ missing = {} =>
                /\ returned[4].ret
                /\ Len(L) = Len(essential_packages)
                /\ \A k \in DOMAIN L : L[k].mark = "ok" /\ L[k].item = essential_packages[k]
          /\ CanRead("requirements.txt") /\ missing # {} =>
                /\ ~returned[4].ret
                /\ Len(L) = first
                /\ \A k \in 1..(first - 1) :
                      L[k].mark = "ok" /\ L[k].item = essential_packages[k]
                /\ L[first].mark = "fail" /\ L[first].item = essential_packages[first]

\* an upper-case manifest missing tensorflow and jupyter: tensorflow is reported
C5_Witness ==
    /\ Returned(4)
    /\ CanRead("requirements.txt")
    /\ fs.text["requirements.txt"]
         = Manifest(Range(essential_packages) \ {"tensorflow", "jupyter"}, "upper", TRUE)
    /\ ~returned[4].ret
    /\ LET L == LinesOf("validate_requirements")
       IN  Len(L) = 3 /\ L[3].mark = "fail" /\ L[3].item = "tensorflow"

\* C6 as stated: main() returns 0 if and only if validate_project_structure,
\* validate_notebooks and validate_requirements all return true.
C6_AsStated ==
    pc = "done" => (exit_status = <<0>> <=> Passed(1) /\ Passed(2) /\ Passed(4))

\* C6, amended: main() returns 0 if and only if validate_project_structure,
\* validate_notebooks and validate_requirements all return true and .gitignore
\* can be read; the Pipeline Layout checker never changes the outcome, and the
\* Ignore-Pattern checker changes it only when .gitignore cannot be read.
C6_GatedByThreeAndReadable ==
    pc = "done" =>
        /\ exit_status = <<0>> <=>
              Passed(1) /\ Passed(2) /\ Passed(4) /\ CanRead(".gitignore")
        /\ Passed(3)
        /\ ~Passed(5) => ~CanRead(".gitignore")

\* the structure, notebook and requirements checkers pass and the run fails
\* on an unreadable .gitignore
C6_Witness ==
    /\ pc = "done"
    /\ Passed(1) /\ Passed(2) /\ Passed(4)
    /\ fs.kind[".gitignore"] = "file"
    /\ ~fs.readable[".gitignore"]
    /\ exit_status = <<1>>

\* filesystem f without the layer READMEs and the models README
WithoutReadmes(f) ==
    [f EXCEPT !.kind = [q \in AllPaths |->
                           IF q \in ReadmePaths THEN "missing" ELSE f.kind[q]]]

\* C7: validate_data_pipeline returns true on every filesystem, whichever of
\* the layer READMEs and the models README exist; removing all of them leaves
\* the result of main() as it is; no data or model artifact is ever tested for
\* existence.
C7_PipelineAlwaysTrue ==
    /\ Returned(3) => returned[3].ret
    /\ \A k \in DOMAIN probes : probes[k].path \notin ArtifactPaths
    /\ Returned(3) =>
          [k \in DOMAIN ProbesOf("validate_data_pipeline") |->
              ProbesOf("validate_data_pipeline")[k].path]
            = <<"data/raw/README.md", "data/stage/README.md",
                "data/processed/README.md", "models/README.md">>
    /\ pc = "done" => exit_status = <<main_status(WithoutReadmes(fs))>>

\* a passing run on a layout without two of the READMEs
C7_Witness ==
    /\ pc = "done"
    /\ exit_status = <<0>>
    /\ fs.kind["data/raw/README.md"] = "missing"
    /\ fs.kind["models/README.md"] = "missing"
    /\ \E k \in DOMAIN out :
          out[k].fn = "validate_data_pipeline" /\ out[k].mark = "fail"

\* C8: validate_gitignore returns true whenever .gitignore can be read,
\* whichever patterns it holds; a pattern that is not an exact, case-sensitive
\* substring of the text yields a warning line only; the checker returns false
\* only if the file cannot be read.
C8_GitignoreWarnsOnly ==
    LET L == LinesOf("validate_gitignore")
        text == fs.text[".gitignore"]
    IN  Returned(5) =>
          /\ returned[5].ret <=> CanRead(".gitignore")
          /\ CanRead(".gitignore") =>
                /\ Len(L) = Len(essential_patterns)
                /\ \A k \in DOMAIN L :
                      /\ L[k].item = essential_patterns[k]
                      /\ L[k].mark = IF \E i \in 0..(Len(text) - Len(Chars[L[k].item])) :
                                           SubSeq(text, i + 1, i + Len(Chars[L[k].item]))
                                             = Chars[L[k].item]
                                     THEN "ok" ELSE "warn"

\* a readable ignore file holding every pattern in upper case only: six
\* warnings and the checker passes
C8_Witness ==
    /\ Returned(5)
    /\ returned[5].ret
    /\ fs.text[".gitignore"] = IgnoreFile(Range(essential_patterns), "upper")
    /\ \A k \in DOMAIN LinesOf("validate_gitignore") :
          LinesOf("validate_gitignore")[k].mark = "warn"
    /\ Len(LinesOf("validate_gitignore")) = 6

====
